---- MODULE Spec2Model ----
(***************************************************************************)
(* Model of rust-genai's shared state: the TTL cache (cache.rs) and the    *)
(* sliding-window rate limiter (rate_limit.rs).  Time is the monotonic     *)
(* clock read by Instant::now(), in whole seconds.                         *)
(***************************************************************************)
EXTENDS Integers, Sequences, FiniteSets, TLC

\* ---------------------------------------------------------------- bounds
CacheMaxTime == 450       \* last clock value explored by the cache model
MaxSets == 2              \* set calls issued in one behaviour
MaxTime == 2              \* last clock value explored by the limiter model
MaxCalls == 3             \* allow calls issued in one behaviour
MaxLimit == 2             \* largest limit handed to RateLimiter::new
MaxWindow == 2            \* largest window handed to RateLimiter::new

CacheTickSteps == {150}   \* clock advances seen by the cache model (seconds)
Threads == {"t1", "t2"}            \* request tasks calling the cache
Workers == {"w1", "w2", "w3"}      \* request tasks calling the limiter
Keys == {"k1", "k2"}
Values == {"v1", "v2"}
ClientIds == {"A", "B"}

\* ------------------------------------------------------- program constants
ttl == 300                \* AppCache::new: Duration::from_secs(300)

NoneVal == "none"         \* Option::None
NoEntry == [val |-> NoneVal, ts |-> -1]
NoThread == "nobody"
EmptyMap == [x \in {} |-> NoEntry]

VARIABLES
    now,        \* the monotonic clock (Instant::now())
    \* --- AppCache
    map,        \* DashMap<String,(String,Instant)>: function on the present keys
    cpc,        \* per task: position inside get / set
    ckey,       \* per task: the key argument
    clocal,     \* per task: get's cloned (val, ts); set's evaluated Instant::now()
    cret,       \* per task: the value returned by the finished call
    cobs,       \* per task (history): what a finished get saw of the sets on its key
    lastSet,    \* per key (history): entry written by the last completed insert
    prevSet,    \* per key (history): entry written by the insert before that
    nsets,      \* history: number of set calls issued
    \* --- RateLimiter
    limit, window,
    clients,    \* HashMap<String, Vec<Instant>>: function on the known ids
    lock,       \* holder of the Mutex, or NoThread
    rpc,        \* per task: position inside allow
    rip,        \* per task: the ip argument
    rnow,       \* per task: the local `now`
    rbefore,    \* per task (history): the ip's timestamps when the lock was taken
    rlog,       \* history: one record per finished allow call, in lock order
    ncalls      \* history: number of allow calls issued

cacheVars == <<map, cpc, ckey, clocal, cret, cobs, lastSet, prevSet, nsets>>
rateVars == <<limit, window, clients, lock, rpc, rip, rnow, rbefore, rlog, ncalls>>
vars == <<now, cacheVars, rateVars>>

\* ------------------------------------------------------------------ clock
Tick(d) ==
    /\ now' = now + d

\* =============================================================== AppCache
NoObs == [snap |-> NoEntry, prev |-> NoEntry, dirty |-> FALSE, beg |-> -1, end |-> -1]

Put(m, k, e) == [x \in (DOMAIN m) \cup {k} |-> IF x = k THEN e ELSE m[x]]
Remove(m, k) == [x \in (DOMAIN m) \ {k} |-> m[x]]

\* A set on key k that completes while a get on k is in flight marks it dirty.
MarkDirty(k) ==
    [u \in Threads |->
        IF cpc[u] \in {"get_elapsed", "get_remove"} /\ ckey[u] = k
        THEN [cobs[u] EXCEPT !.dirty = TRUE] ELSE cobs[u]]

\* cache.rs:19  self.map.get(key).map(|v| v.value().clone())
get_lookup(t, k) ==
    /\ cpc[t] = "idle"
    /\ ckey' = [ckey EXCEPT ![t] = k]
    /\ IF k \in DOMAIN map
       THEN /\ clocal' = [clocal EXCEPT ![t] = map[k]]
            /\ cpc' = [cpc EXCEPT ![t] = "get_elapsed"]
            /\ cobs' = [cobs EXCEPT ![t] = [snap |-> lastSet[k], prev |-> prevSet[k],
                                           dirty |-> FALSE, beg |-> now, end |-> -1]]
            /\ UNCHANGED cret
       ELSE /\ cpc' = [cpc EXCEPT ![t] = "get_done"]
            /\ cret' = [cret EXCEPT ![t] = NoneVal]
            /\ cobs' = [cobs EXCEPT ![t] = [snap |-> lastSet[k], prev |-> prevSet[k],
                                           dirty |-> FALSE, beg |-> now, end |-> now]]
            /\ UNCHANGED clocal
    /\ UNCHANGED <<now, map, lastSet, prevSet, nsets, rateVars>>

\* variant of get_elapsed: a hit refreshes the entry's timestamp (sliding TTL)
get_elapsed_Refresh(t) ==
    /\ cpc[t] = "get_elapsed"
    /\ IF now - clocal[t].ts < ttl
       THEN /\ cpc' = [cpc EXCEPT ![t] = "get_done"]
            /\ cret' = [cret EXCEPT ![t] = clocal[t].val]
            /\ cobs' = [cobs EXCEPT ![t].end = now]
            /\ map' = Put(map, ckey[t], [val |-> clocal[t].val, ts |-> now])
       ELSE /\ cpc' = [cpc EXCEPT ![t] = "get_remove"]
            /\ UNCHANGED <<cret, cobs, map>>
    /\ UNCHANGED <<now, ckey, clocal, lastSet, prevSet, nsets, rateVars>>

\* cache.rs:20-22  if ts.elapsed() < self.ttl { return Some(val) } else ...
get_elapsed(t) ==
    /\ cpc[t] = "get_elapsed"
    /\ IF now - clocal[t].ts < ttl
       THEN /\ cpc' = [cpc EXCEPT ![t] = "get_done"]
            /\ cret' = [cret EXCEPT ![t] = clocal[t].val]
            /\ cobs' = [cobs EXCEPT ![t].end = now]
       ELSE /\ cpc' = [cpc EXCEPT ![t] = "get_remove"]
            /\ UNCHANGED <<cret, cobs>>
    /\ UNCHANGED <<now, map, ckey, clocal, lastSet, prevSet, nsets, rateVars>>

\* variant of get_remove: the eviction sweeps every expired entry of the map
get_remove_Sweep(t) ==
    /\ cpc[t] = "get_remove"
    /\ map' = [x \in {y \in DOMAIN map : y # ckey[t] /\ now - map[y].ts < ttl} |-> map[x]]
    /\ cpc' = [cpc EXCEPT ![t] = "get_done"]
    /\ cret' = [cret EXCEPT ![t] = NoneVal]
    /\ cobs' = [cobs EXCEPT ![t].end = now]
    /\ UNCHANGED <<now, ckey, clocal, lastSet, prevSet, nsets, rateVars>>

\* variant of get_remove: the expired entry is reported but left in the map
get_remove_Keeps(t) ==
    /\ cpc[t] = "get_remove"
    /\ map' = map
    /\ cpc' = [cpc EXCEPT ![t] = "get_done"]
    /\ cret' = [cret EXCEPT ![t] = NoneVal]
    /\ cobs' = [cobs EXCEPT ![t].end = now]
    /\ UNCHANGED <<now, ckey, clocal, lastSet, prevSet, nsets, rateVars>>

\* cache.rs:23,26  self.map.remove(key); None
get_remove(t) ==
    /\ cpc[t] = "get_remove"
    /\ map' = Remove(map, ckey[t])
    /\ cpc' = [cpc EXCEPT ![t] = "get_done"]
    /\ cret' = [cret EXCEPT ![t] = NoneVal]
    /\ cobs' = [cobs EXCEPT ![t].end = now]
    /\ UNCHANGED <<now, ckey, clocal, lastSet, prevSet, nsets, rateVars>>

\* cache.rs:30  the argument (value, Instant::now()) is evaluated first
set_now(t, k, v) ==
    /\ cpc[t] = "idle"
    /\ ckey' = [ckey EXCEPT ![t] = k]
    /\ nsets < MaxSets
    /\ nsets' = nsets + 1
    /\ clocal' = [clocal EXCEPT ![t] = [val |-> v, ts |-> now]]
    /\ cpc' = [cpc EXCEPT ![t] = "set_insert"]
    /\ UNCHANGED <<now, map, cret, cobs, lastSet, prevSet, rateVars>>

\* variant of set_insert: the insert also evicts the expired entries of other keys
set_insert_Evicts(t) ==
    /\ cpc[t] = "set_insert"
    /\ map' = [x \in {y \in DOMAIN map : now - map[y].ts < ttl} \cup {ckey[t]} |->
                 IF x = ckey[t] THEN clocal[t] ELSE map[x]]
    /\ lastSet' = [lastSet EXCEPT ![ckey[t]] = clocal[t]]
    /\ prevSet' = [prevSet EXCEPT ![ckey[t]] = lastSet[ckey[t]]]
    /\ cobs' = MarkDirty(ckey[t])
    /\ cpc' = [cpc EXCEPT ![t] = "set_done"]
    /\ UNCHANGED <<now, ckey, clocal, cret, nsets, rateVars>>

\* variant of set_insert: an existing entry gets the new value in place and
\* keeps its old timestamp
set_insert_Torn(t) ==
    /\ cpc[t] = "set_insert"
    /\ map' = Put(map, ckey[t],
                  IF ckey[t] \in DOMAIN map
                  THEN [val |-> clocal[t].val, ts |-> map[ckey[t]].ts]
                  ELSE clocal[t])
    /\ lastSet' = [lastSet EXCEPT ![ckey[t]] = clocal[t]]
    /\ prevSet' = [prevSet EXCEPT ![ckey[t]] = lastSet[ckey[t]]]
    /\ cobs' = MarkDirty(ckey[t])
    /\ cpc' = [cpc EXCEPT ![t] = "set_done"]
    /\ UNCHANGED <<now, ckey, clocal, cret, nsets, rateVars>>

\* cache.rs:30  self.map.insert(key, ...)
set_insert(t) ==
    /\ cpc[t] = "set_insert"
    /\ map' = Put(map, ckey[t], clocal[t])
    /\ lastSet' = [lastSet EXCEPT ![ckey[t]] = clocal[t]]
    /\ prevSet' = [prevSet EXCEPT ![ckey[t]] = lastSet[ckey[t]]]
    /\ cobs' = MarkDirty(ckey[t])
    /\ cpc' = [cpc EXCEPT ![t] = "set_done"]
    /\ UNCHANGED <<now, ckey, clocal, cret, nsets, rateVars>>

\* the call has returned to the request handler; the task is free again
cache_return(t) ==
    /\ cpc[t] \in {"get_done", "set_done"}
    /\ cpc' = [cpc EXCEPT ![t] = "idle"]
    /\ ckey' = [ckey EXCEPT ![t] = NoneVal]
    /\ clocal' = [clocal EXCEPT ![t] = NoEntry]
    /\ cret' = [cret EXCEPT ![t] = NoneVal]
    /\ cobs' = [cobs EXCEPT ![t] = NoObs]
    /\ UNCHANGED <<now, map, lastSet, prevSet, nsets, rateVars>>

CacheTick ==
    /\ \E d \in CacheTickSteps : now + d <= CacheMaxTime /\ Tick(d)
    /\ UNCHANGED <<cacheVars, rateVars>>

\* AppCache::new and the limiter left untouched
InitCacheVars ==
    /\ map = EmptyMap
    /\ cpc = [t \in Threads |-> "idle"]
    /\ ckey = [t \in Threads |-> NoneVal]
    /\ nsets = 0
    /\ clocal = [t \in Threads |-> NoEntry]
    /\ cret = [t \in Threads |-> NoneVal]
    /\ cobs = [t \in Threads |-> NoObs]
    /\ lastSet = [k \in Keys |-> NoEntry]
    /\ prevSet = [k \in Keys |-> NoEntry]

InitRateIdle ==
    /\ clients = EmptyMap
    /\ lock = NoThread
    /\ rpc = [w \in Workers |-> "idle"]
    /\ rip = [w \in Workers |-> NoneVal]
    /\ rnow = [w \in Workers |-> -1]
    /\ rbefore = [w \in Workers |-> << >>]
    /\ rlog = << >>
    /\ ncalls = 0

InitCache ==
    /\ now = 0
    /\ InitCacheVars
    /\ limit = 10 /\ window = 60
    /\ InitRateIdle

NextCache ==
    \/ \E t \in Threads, k \in Keys : get_lookup(t, k)
    \/ \E t \in Threads : get_elapsed(t)
    \/ \E t \in Threads : get_remove(t)
    \/ \E t \in Threads, k \in Keys, v \in Values : set_now(t, k, v)
    \/ \E t \in Threads : set_insert(t)
    \/ \E t \in Threads : cache_return(t)
    \/ CacheTick

SpecCache == InitCache /\ [][NextCache]_vars

\* ------------------------------------------------------- cache properties
EntryOf(k) == IF k \in DOMAIN map THEN map[k] ELSE NoEntry

\* a finished get whose key had a completed set before the lookup and none since
GetAfterSet(t) ==
    /\ cpc[t] = "get_done"
    /\ cobs[t].snap # NoEntry
    /\ ~cobs[t].dirty

\* C2: after set(k, v) with no later set on k, a get(k) that runs wholly
\* before ttl has elapsed since the set's timestamp returns v, and a get(k)
\* that runs wholly at or after ttl (the boundary included) returns none.
C2_CacheFreshness ==
    \A t \in Threads :
        GetAfterSet(t) =>
            /\ (cobs[t].end - cobs[t].snap.ts < ttl => cret[t] = cobs[t].snap.val)
            /\ (cobs[t].beg - cobs[t].snap.ts >= ttl => cret[t] = NoneVal)

\* C3: no step of any get or set takes a still valid entry (now - createdAt
\* < ttl) out of the map; a key holding a valid entry keeps holding an entry.
C3_ValidEntryNeverRemoved ==
    [][\A k \in Keys :
          (k \in DOMAIN map /\ now - map[k].ts < ttl) => k \in DOMAIN map']_vars

\* C8: a get that returns a stored value is a read: neither its lookup nor
\* its hit changes the map, and it only hits while the entry it cloned is
\* younger than ttl counted from the entry's own creation timestamp.
C8_GetIsRead ==
    [][\A t \in Threads :
          /\ (cpc[t] = "idle" /\ cpc'[t] = "get_elapsed") => map' = map
          /\ (cpc[t] = "get_elapsed" /\ cpc'[t] = "get_done") =>
                /\ map' = map
                /\ cret'[t] = clocal[t].val
                /\ now - clocal[t].ts < ttl]_vars

\* C8 witness: a get hit on an entry that has aged since its set and that is
\* still in the map with its original timestamp.
C8_Witness ==
    \E t \in Threads :
        /\ cpc[t] = "get_done" /\ cret[t] # NoneVal
        /\ ckey[t] \in DOMAIN map
        /\ map[ckey[t]] = clocal[t]
        /\ clocal[t].ts < cobs[t].end

\* C9: set(k, v1), set(k, v2), then get(k) before ttl has elapsed since the
\* second set returns v2, also when ttl has elapsed since the first set.
C9_CacheOverwrite ==
    \A t \in Threads :
        (/\ GetAfterSet(t)
         /\ cobs[t].prev # NoEntry
         /\ cobs[t].end - cobs[t].snap.ts < ttl)
        => cret[t] = cobs[t].snap.val

\* C10: a step changes the entry of key k2 only when it is a step of a get
\* or set whose key argument is k2.
C10_CacheIsolation ==
    [][\A k2 \in Keys :
          EntryOf(k2)' # EntryOf(k2) =>
              \E t \in Threads : cpc'[t] # cpc[t] /\ ckey[t] = k2]_vars

\* C10 witness: a get has just evicted its expired key while another key
\* holds an entry that is expired as well and is still in the map.
C10_Witness ==
    \E t \in Threads, k2 \in Keys :
        /\ cpc[t] = "get_done" /\ cret[t] = NoneVal
        /\ clocal[t] # NoEntry
        /\ ckey[t] \notin DOMAIN map
        /\ k2 # ckey[t] /\ k2 \in DOMAIN map
        /\ now - map[k2].ts >= ttl

\* ============================================================ RateLimiter
\* rate_limit.rs:24  the Vec of ip, empty when the id is not yet in the map
TimestampsOf(c) == IF c \in DOMAIN clients THEN clients[c] ELSE << >>

\* Instant::duration_since (saturating at zero)
DurationSince(n, t) == IF n >= t THEN n - t ELSE 0

\* variant of Keep: a timestamp exactly one window old is still counted
Keep_Inclusive(n, wnd, t) == DurationSince(n, t) <= wnd

\* rate_limit.rs:25  entry.retain(|&t| now.duration_since(t) < window)
Keep(n, wnd, t) == DurationSince(n, t) < wnd
Retain(seq, n, wnd) == SelectSeq(seq, LAMBDA t : Keep(n, wnd, t))

\* other tasks that are inside allow for the same ip right now
Concurrent(w) == Cardinality({u \in Workers \ {w} : rpc[u] # "idle" /\ rip[u] = rip[w]})

LogEntry(w, ok, after) ==
    [ip |-> rip[w], time |-> rnow[w], ok |-> ok,
     before |-> rbefore[w], after |-> after, conc |-> Concurrent(w)]

\* rate_limit.rs:20  a request task calls allow(ip)
allow_call(w, ip) ==
    /\ rpc[w] = "idle"
    /\ ncalls < MaxCalls
    /\ ncalls' = ncalls + 1
    /\ rpc' = [rpc EXCEPT ![w] = "lock"]
    /\ rip' = [rip EXCEPT ![w] = ip]
    /\ UNCHANGED <<now, cacheVars, limit, window, clients, lock, rnow, rbefore, rlog>>

\* variant of allow_lock: the map is entered without mutual exclusion
allow_lock_NoMutex(w) ==
    /\ rpc[w] = "lock"
    /\ lock' = w
    /\ rpc' = [rpc EXCEPT ![w] = "now"]
    /\ UNCHANGED <<now, cacheVars, limit, window, clients, rip, rnow, rbefore, rlog, ncalls>>

\* rate_limit.rs:21  self.clients.lock().unwrap()
allow_lock(w) ==
    /\ rpc[w] = "lock"
    /\ lock = NoThread
    /\ lock' = w
    /\ rpc' = [rpc EXCEPT ![w] = "now"]
    /\ UNCHANGED <<now, cacheVars, limit, window, clients, rip, rnow, rbefore, rlog, ncalls>>

\* rate_limit.rs:22  let now = Instant::now()
allow_now(w) ==
    /\ rpc[w] = "now"
    /\ rnow' = [rnow EXCEPT ![w] = now]
    /\ rpc' = [rpc EXCEPT ![w] = "retain"]
    /\ UNCHANGED <<now, cacheVars, limit, window, clients, lock, rip, rbefore, rlog, ncalls>>

\* variant of allow_retain: the stale timestamps are not pruned
allow_retain_NoPrune(w) ==
    /\ rpc[w] = "retain"
    /\ rbefore' = [rbefore EXCEPT ![w] = TimestampsOf(rip[w])]
    /\ clients' = Put(clients, rip[w], TimestampsOf(rip[w]))
    /\ rpc' = [rpc EXCEPT ![w] = "check"]
    /\ UNCHANGED <<now, cacheVars, limit, window, lock, rip, rnow, rlog, ncalls>>

\* variant of allow_retain: an id whose list is empty after pruning is
\* dropped from the map
allow_retain_DropEmpty(w) ==
    /\ rpc[w] = "retain"
    /\ rbefore' = [rbefore EXCEPT ![w] = TimestampsOf(rip[w])]
    /\ clients' = IF Retain(TimestampsOf(rip[w]), rnow[w], window) = << >>
                  THEN Remove(clients, rip[w])
                  ELSE Put(clients, rip[w], Retain(TimestampsOf(rip[w]), rnow[w], window))
    /\ rpc' = [rpc EXCEPT ![w] = "check"]
    /\ UNCHANGED <<now, cacheVars, limit, window, lock, rip, rnow, rlog, ncalls>>

\* rate_limit.rs:23-25  entry(ip).or_insert_with(Vec::new); entry.retain(..)
allow_retain(w) ==
    /\ rpc[w] = "retain"
    /\ rbefore' = [rbefore EXCEPT ![w] = TimestampsOf(rip[w])]
    /\ clients' = Put(clients, rip[w], Retain(TimestampsOf(rip[w]), rnow[w], window))
    /\ rpc' = [rpc EXCEPT ![w] = "check"]
    /\ UNCHANGED <<now, cacheVars, limit, window, lock, rip, rnow, rlog, ncalls>>

\* variant of allow_check: the comparison is off by one (<= for <)
allow_check_OffByOne(w) ==
    /\ rpc[w] = "check"
    /\ rpc' = [rpc EXCEPT ![w] =
                 IF Len(TimestampsOf(rip[w])) <= limit THEN "push" ELSE "reject"]
    /\ UNCHANGED <<now, cacheVars, limit, window, clients, lock, rip, rnow, rbefore, rlog, ncalls>>

\* rate_limit.rs:26  if entry.len() < self.limit
allow_check(w) ==
    /\ rpc[w] = "check"
    /\ rpc' = [rpc EXCEPT ![w] =
                 IF Len(TimestampsOf(rip[w])) < limit THEN "push" ELSE "reject"]
    /\ UNCHANGED <<now, cacheVars, limit, window, clients, lock, rip, rnow, rbefore, rlog, ncalls>>

\* what every return path of allow does: the MutexGuard is dropped (line 32)
allow_return(w, ok) ==
    /\ lock' = IF lock = w THEN NoThread ELSE lock
    /\ rlog' = Append(rlog, LogEntry(w, ok,
                  IF rip[w] \in DOMAIN clients' THEN clients'[rip[w]] ELSE << >>))
    /\ rpc' = [rpc EXCEPT ![w] = "idle"]
    /\ rip' = [rip EXCEPT ![w] = NoneVal]
    /\ rnow' = [rnow EXCEPT ![w] = -1]
    /\ rbefore' = [rbefore EXCEPT ![w] = << >>]

\* variant of allow_push: one timestamp list is shared by all known clients
allow_push_Shared(w) ==
    /\ rpc[w] = "push"
    /\ clients' = [c \in DOMAIN clients |-> Append(clients[c], rnow[w])]
    /\ allow_return(w, TRUE)
    /\ UNCHANGED <<now, cacheVars, limit, window, ncalls>>

\* rate_limit.rs:27-28  entry.push(now); true
allow_push(w) ==
    /\ rpc[w] = "push"
    /\ clients' = Put(clients, rip[w], Append(TimestampsOf(rip[w]), rnow[w]))
    /\ allow_return(w, TRUE)
    /\ UNCHANGED <<now, cacheVars, limit, window, ncalls>>

\* variant of allow_reject: the rejected attempt is recorded as well
allow_reject_Records(w) ==
    /\ rpc[w] = "reject"
    /\ clients' = Put(clients, rip[w], Append(TimestampsOf(rip[w]), rnow[w]))
    /\ allow_return(w, FALSE)
    /\ UNCHANGED <<now, cacheVars, limit, window, ncalls>>

\* variant of allow_reject: the reject path returns without releasing the lock
allow_reject_KeepsLock(w) ==
    /\ rpc[w] = "reject"
    /\ clients' = clients
    /\ lock' = lock
    /\ rlog' = Append(rlog, LogEntry(w, FALSE, TimestampsOf(rip[w])))
    /\ rpc' = [rpc EXCEPT ![w] = "idle"]
    /\ rip' = [rip EXCEPT ![w] = NoneVal]
    /\ rnow' = [rnow EXCEPT ![w] = -1]
    /\ rbefore' = [rbefore EXCEPT ![w] = << >>]
    /\ UNCHANGED <<now, cacheVars, limit, window, ncalls>>

\* rate_limit.rs:30  false
allow_reject(w) ==
    /\ rpc[w] = "reject"
    /\ clients' = clients
    /\ allow_return(w, FALSE)
    /\ UNCHANGED <<now, cacheVars, limit, window, ncalls>>

RateTick ==
    /\ now + 1 <= MaxTime
    /\ Tick(1)
    /\ UNCHANGED <<cacheVars, rateVars>>

\* RateLimiter::new(limit, window) with the cache left untouched
InitRate ==
    /\ now = 0
    /\ InitCacheVars
    /\ limit \in 0..MaxLimit
    /\ window \in 0..MaxWindow
    /\ InitRateIdle

NextRate ==
    \/ \E w \in Workers, ip \in ClientIds : allow_call(w, ip)
    \/ \E w \in Workers : allow_lock(w)
    \/ \E w \in Workers : allow_now(w)
    \/ \E w \in Workers : allow_retain(w)
    \/ \E w \in Workers : allow_check(w)
    \/ \E w \in Workers : allow_push(w)
    \/ \E w \in Workers : allow_reject(w)
    \/ RateTick

SpecRate == InitRate /\ [][NextRate]_vars

\* a task that is inside allow and able to take its next step eventually
\* takes it (every request task keeps being scheduled)
AllowStep(w) ==
    \/ allow_lock(w) \/ allow_now(w) \/ allow_retain(w)
    \/ allow_check(w) \/ allow_push(w) \/ allow_reject(w)

SpecRateFair == SpecRate /\ \A w \in Workers : WF_vars(AllowStep(w))

\* ------------------------------------------------------ limiter properties
CallsOf(c) == {i \in DOMAIN rlog : rlog[i].ip = c}
AdmittedOf(c) == {i \in CallsOf(c) : rlog[i].ok}
\* the i-th finished call is the PosOf(i)-th call of its client
PosOf(i) == Cardinality({j \in 1..i : rlog[j].ip = rlog[i].ip})
FirstOf(c) == CHOOSE i \in CallsOf(c) : \A j \in CallsOf(c) : i <= j
PrevOf(i) == CHOOSE j \in CallsOf(rlog[i].ip) :
                 j < i /\ \A h \in CallsOf(rlog[i].ip) : h < i => h <= j

\* C1: under any interleaving, the admitted calls of one client whose
\* admission times lie within a span shorter than window number at most
\* limit; and of the calls made by a client at the instant of its first call,
\* exactly the first limit ones are admitted.
C1_ConcurrentAdmission ==
    /\ \A c \in ClientIds : \A i \in AdmittedOf(c) :
          Cardinality({j \in AdmittedOf(c) :
                          /\ rlog[j].time <= rlog[i].time
                          /\ rlog[i].time - rlog[j].time < window}) <= limit
    /\ \A i \in DOMAIN rlog :
          (window > 0 /\ rlog[i].time = rlog[FirstOf(rlog[i].ip)].time)
          => (rlog[i].ok <=> PosOf(i) <= limit)

\* C1 witness: limit + 1 calls of a fresh client were inside allow together
\* at one instant; the first limit were admitted and the last one rejected.
C1_Witness ==
    /\ limit >= 2 /\ window >= 1
    /\ Len(rlog) = limit + 1
    /\ \A i \in DOMAIN rlog :
          /\ rlog[i].ip = rlog[1].ip
          /\ rlog[i].time = rlog[1].time
          /\ rlog[i].conc = limit + 1 - i
          /\ rlog[i].ok <=> i <= limit

\* C4: of the calls one client makes less than window seconds after its
\* first call, the first limit return true and the (limit+1)th returns false.
C4_AdmissionCount ==
    \A i \in DOMAIN rlog :
        (/\ rlog[i].time - rlog[FirstOf(rlog[i].ip)].time < window
         /\ PosOf(i) <= limit + 1)
        => (rlog[i].ok <=> PosOf(i) <= limit)

\* C4 witness: two admitted calls and a rejected third call of one client,
\* spread over time inside one window.
C4_Witness ==
    \E i \in DOMAIN rlog :
        /\ limit = 2 /\ PosOf(i) = 3 /\ ~rlog[i].ok
        /\ rlog[i].time > rlog[FirstOf(rlog[i].ip)].time
        /\ rlog[i].time - rlog[FirstOf(rlog[i].ip)].time < window

\* C5: a call that finds the client's oldest recorded timestamp at least
\* window seconds old returns true, also when the client was at quota.
C5_WindowSlide ==
    \A i \in DOMAIN rlog :
        (/\ rlog[i].before # << >>
         /\ rlog[i].time - Head(rlog[i].before) >= window)
        => rlog[i].ok

\* C5 witness: a client at quota was rejected, and its next call, made when
\* the oldest timestamp had become window seconds old, was admitted.
C5_Witness ==
    \E i \in DOMAIN rlog :
        /\ PosOf(i) > 1
        /\ window >= 1 /\ limit >= 1
        /\ rlog[i].before # << >>
        /\ ~rlog[PrevOf(i)].ok
        /\ Len(rlog[PrevOf(i)].before) = limit
        /\ rlog[i].before = rlog[PrevOf(i)].before
        /\ rlog[i].time - Head(rlog[i].before) = window
        /\ rlog[i].ok

\* C6: a call that returns false leaves the client's timestamp sequence
\* exactly as it found it.
C6_RejectLeavesSequence ==
    \A i \in DOMAIN rlog : ~rlog[i].ok => rlog[i].after = rlog[i].before

\* C6 witness: a rejected call on a client at quota whose timestamps were
\* recorded earlier and are not yet stale.
C6_Witness ==
    \E i \in DOMAIN rlog :
        /\ ~rlog[i].ok
        /\ Len(rlog[i].before) = 2
        /\ rlog[i].before[1] < rlog[i].time
        /\ rlog[i].after = rlog[i].before

\* C7: every call finds its client's sequence as that client's previous call
\* left it (empty for a first call), and a step changes the sequence of a
\* client only when it is a step of an allow call for that client.
C7_ClientIsolation ==
    /\ [](\A i \in DOMAIN rlog :
             rlog[i].before = IF PosOf(i) = 1 THEN << >> ELSE rlog[PrevOf(i)].after)
    /\ [][\A c \in ClientIds :
             TimestampsOf(c)' # TimestampsOf(c) =>
                 \E w \in Workers : rpc'[w] # rpc[w] /\ rip[w] = c]_vars

\* C7 witness: client A was rejected at quota, and another client was
\* admitted afterwards while A's timestamps were still inside the window.
C7_Witness ==
    \E i, j \in DOMAIN rlog :
        /\ i < j
        /\ rlog[i].ip # rlog[j].ip
        /\ ~rlog[i].ok /\ rlog[i].before # << >>
        /\ rlog[j].ok
        /\ rlog[j].time - Head(rlog[i].before) < window
        /\ TimestampsOf(rlog[i].ip) = rlog[i].before

\* ------------------------------------------------- cache properties (cont.)
\* C11: a get that finds its entry at least ttl old does not hit, returns
\* none and leaves the key absent from the map; a get on an absent key
\* returns none and leaves the map as it was.
C11_ExpiredEvicted ==
    [][\A t \in Threads :
          /\ (/\ cpc[t] = "get_elapsed" /\ cpc'[t] # cpc[t]
              /\ now - clocal[t].ts >= ttl) => cpc'[t] = "get_remove"
          /\ (cpc[t] = "get_remove" /\ cpc'[t] = "get_done") =>
                /\ cret'[t] = NoneVal
                /\ ckey[t] \notin DOMAIN map'
          /\ (cpc[t] = "idle" /\ cpc'[t] = "get_done") =>
                /\ cret'[t] = NoneVal
                /\ ckey'[t] \notin DOMAIN map
                /\ map' = map]_vars

\* C11 witness: a get found an entry at least ttl old, no set on the key
\* intervened, the get returned none and the key is gone.
C11_Witness ==
    \E t \in Threads :
        /\ cpc[t] = "get_done" /\ cret[t] = NoneVal
        /\ clocal[t] # NoEntry
        /\ cobs[t].end - clocal[t].ts >= ttl
        /\ ~cobs[t].dirty
        /\ ckey[t] \notin DOMAIN map

\* C17: an entry leaves the map or changes only through the eviction step of
\* a get on its own key or the insert of a set on its own key; the passing
\* of time and operations on other keys leave it in place, expired or not.
C17_RemovalOnlyByOwnKey ==
    [][\A k \in DOMAIN map :
          \/ (k \in DOMAIN map' /\ map'[k] = map[k])
          \/ \E t \in Threads :
                /\ cpc[t] = "get_remove" /\ ckey[t] = k /\ cpc'[t] = "get_done"
                /\ k \notin DOMAIN map'
          \/ \E t \in Threads :
                /\ cpc[t] = "set_insert" /\ ckey[t] = k /\ cpc'[t] = "set_done"
                /\ k \in DOMAIN map' /\ map'[k] = clocal[t]]_vars

\* C17 witness: an entry that expired and was not read again is still in the
\* map after a set on another key that was made once it had expired.
C17_Witness ==
    \E k, k2 \in Keys :
        /\ k # k2
        /\ k \in DOMAIN map /\ k2 \in DOMAIN map
        /\ now - map[k].ts >= ttl
        /\ map[k2].ts - map[k].ts >= ttl
        /\ \A t \in Threads : cpc[t] = "idle"

\* C19: every entry in the map is, value and timestamp together, the entry
\* written by the last completed insert on its key; every entry a get cloned
\* is the one insert's entry that was current at its lookup; and a hit
\* returns that entry's value, judged fresh by that same entry's timestamp.
C19_NoMixedEntry ==
    /\ \A k \in DOMAIN map : map[k] = lastSet[k]
    /\ \A t \in Threads :
          (cpc[t] \in {"get_elapsed", "get_remove", "get_done"} /\ clocal[t] # NoEntry)
          => clocal[t] = cobs[t].snap
    /\ \A t \in Threads :
          (cpc[t] = "get_done" /\ cret[t] # NoneVal)
          => /\ cret[t] = cobs[t].snap.val
             /\ cobs[t].end - cobs[t].snap.ts < ttl

\* C19 witness: two sets on one key with different values overlapped (the one
\* that took its timestamp first inserted last), and a later get returned
\* the last writer's value.
C19_Witness ==
    \E k \in Keys, t \in Threads :
        /\ prevSet[k] # NoEntry
        /\ prevSet[k].ts > lastSet[k].ts
        /\ prevSet[k].val # lastSet[k].val
        /\ k \in DOMAIN map
        /\ cpc[t] = "get_done" /\ ckey[t] = k
        /\ cobs[t].snap = lastSet[k]
        /\ cret[t] = lastSet[k].val

\* ----------------------------------------------- limiter properties (cont.)
\* the timestamps of seq that are less than window old at time n
Fresh(seq, n) == SelectSeq(seq, LAMBDA t : n - t < window)

\* C12: no constructed limiter rejects every call or admits every call: the
\* first call of a client is admitted, and one client never has more than
\* limit calls admitted at one instant.
C12_ParamsValidated ==
    /\ \A i \in DOMAIN rlog : PosOf(i) = 1 => rlog[i].ok
    /\ \A c \in ClientIds : \A i \in AdmittedOf(c) :
          Cardinality({j \in AdmittedOf(c) : rlog[j].time = rlog[i].time}) <= limit

\* C13: a call returns true exactly when fewer than limit of the client's
\* timestamps are less than window old at the call's now; an admitted call
\* leaves exactly those timestamps followed by its now.
C13_AllowDecision ==
    \A i \in DOMAIN rlog :
        /\ rlog[i].ok <=> Len(Fresh(rlog[i].before, rlog[i].time)) < limit
        /\ rlog[i].ok =>
              rlog[i].after = Append(Fresh(rlog[i].before, rlog[i].time), rlog[i].time)

\* C13 witness: an admitted call that dropped stale timestamps and appended
\* its own.
C13_Witness ==
    \E i \in DOMAIN rlog :
        /\ rlog[i].ok
        /\ rlog[i].before # << >>
        /\ Len(rlog[i].after) <= Len(rlog[i].before)
        /\ rlog[i].after[Len(rlog[i].after)] = rlog[i].time

\* C14: whenever the lock is free, no client's sequence is longer than limit.
C14_LengthAtMostLimit ==
    lock = NoThread => \A c \in DOMAIN clients : Len(clients[c]) <= limit

\* C14 witness: the lock is free, a client holds exactly limit timestamps and
\* has just been rejected at that length.
C14_Witness ==
    \E i \in DOMAIN rlog :
        /\ lock = NoThread
        /\ limit = 2
        /\ ~rlog[i].ok
        /\ Len(TimestampsOf(rlog[i].ip)) = limit

\* C15 (as claimed): in every state every recorded timestamp is less than
\* window old at the current time (read here for a limiter whose window is
\* positive, where a timestamp is fresh at the moment it is recorded).
C15_AllTimestampsFresh ==
    window > 0 =>
        \A c \in DOMAIN clients : \A j \in DOMAIN clients[c] :
            now - clients[c][j] < window

\* C15 (amended): once an allow call has pruned, and until it appends or
\* returns, every timestamp of its client is less than window old at the
\* time the call read.
C15_FreshAfterPrune ==
    \A w \in Workers :
        rpc[w] \in {"check", "push", "reject"} =>
            \A j \in DOMAIN TimestampsOf(rip[w]) :
                rnow[w] - TimestampsOf(rip[w])[j] < window

\* C15 witness: a call has just pruned stale timestamps of its client and
\* kept a timestamp that is not stale.
C15_Witness ==
    \E w \in Workers :
        /\ rpc[w] = "check"
        /\ Len(rbefore[w]) > Len(TimestampsOf(rip[w]))
        /\ TimestampsOf(rip[w]) # << >>

\* C16: every client's sequence is in non-decreasing order in every state.
C16_OldestFirst ==
    \A c \in DOMAIN clients : \A j, k \in DOMAIN clients[c] :
        j < k => clients[c][j] <= clients[c][k]

\* C16 witness: a call admitted while another call for the same client was
\* inside allow appended a timestamp later than the one already recorded.
C16_Witness ==
    \E i \in DOMAIN rlog :
        /\ rlog[i].ok /\ rlog[i].conc >= 1
        /\ Len(rlog[i].after) = 2
        /\ rlog[i].after[1] < rlog[i].after[2]

\* C18: the set of known ids never loses a member, and every id that has
\* finished an allow call, admitted or rejected, is in the map.
C18_IdsNeverShrink ==
    /\ [](\A i \in DOMAIN rlog : rlog[i].ip \in DOMAIN clients)
    /\ [][DOMAIN clients \subseteq DOMAIN clients']_vars

\* C18 witness: an id whose first call was rejected is in the map with an
\* empty sequence, next to an id that holds a timestamp.
C18_Witness ==
    \E i \in DOMAIN rlog :
        /\ PosOf(i) = 1 /\ ~rlog[i].ok
        /\ rlog[i].ip \in DOMAIN clients
        /\ clients[rlog[i].ip] = << >>

\* every call that was issued has returned
AllReturned == \A w \in Workers : rpc[w] = "idle"

\* C20: the lock is held exactly while some call is between acquiring it and
\* returning, and from every state a state is reached in which every issued
\* call has returned (so no call, waiting for the lock or holding it, stays
\* inside allow forever).
C20_AllowReturns ==
    /\ [](lock = NoThread <=>
            \A w \in Workers : rpc[w] \in {"idle", "lock"})
    /\ []<>AllReturned

\* C20 witness: two calls wait for the lock while a third is about to leave
\* it on the reject path.
C20_Witness ==
    \E w \in Workers :
        /\ lock = w /\ rpc[w] = "reject"
        /\ \A u \in Workers \ {w} : rpc[u] = "lock"

====
